---------------------------- MODULE Spec2Model ----------------------------
(***************************************************************************)
(* STK500v2 bootloader (stk500boot.c), ATmega2560 build: the boot          *)
(* decision, the frame receiver, the command interpreter, the flash        *)
(* programmer and the frame transmitter, as one state machine.             *)
(*                                                                         *)
(* The firmware is a single thread.  recieveData, the if/else dispatch     *)
(* chain of main (with readDevice / programDevice inlined) and the answer  *)
(* transmitter are one action each; loops inside them are computed by      *)
(* operators.  The host is the environment: it puts whole frames on the    *)
(* serial line while the firmware is waiting for input.                    *)
(*                                                                         *)
(* Undefined behaviour (a store or load outside msgBuffer) is recorded in  *)
(* ub.  Two outcomes are tracked: the stray access misses every variable   *)
(* of the session and execution continues, or control is lost (the action  *)
(* Undefined).                                                             *)
(***************************************************************************)
EXTENDS Naturals, Sequences, FiniteSets

\* ------------------------------------------------------------------------
\* Protocol constants (command.h, Atmel AVR068)
MESSAGE_START          == 27
TOKEN                  == 14
CMD_SIGN_ON            == 1
CMD_SET_PARAMETER      == 2
CMD_GET_PARAMETER      == 3
CMD_LOAD_ADDRESS       == 6
CMD_ENTER_PROGMODE_ISP == 16
CMD_LEAVE_PROGMODE_ISP == 17
CMD_CHIP_ERASE_ISP     == 18
CMD_PROGRAM_FLASH_ISP  == 19
CMD_READ_FLASH_ISP     == 20
CMD_READ_FUSE_ISP      == 24
CMD_READ_LOCK_ISP      == 26
CMD_READ_SIGNATURE_ISP == 27
CMD_SPI_MULTI          == 29
STATUS_CMD_OK          == 0
STATUS_CMD_FAILED      == 192
PARAM_BUILD_NUMBER_LOW  == 128
PARAM_BUILD_NUMBER_HIGH == 129
PARAM_HW_VER            == 144
PARAM_SW_MAJOR          == 145
PARAM_SW_MINOR          == 146

\* Configuration of this build (stk500boot.c)
CONFIG_PARAM_BUILD_NUMBER_LOW  == 0
CONFIG_PARAM_BUILD_NUMBER_HIGH == 0
CONFIG_PARAM_HW_VER            == 15
CONFIG_PARAM_SW_MAJOR          == 2
CONFIG_PARAM_SW_MINOR          == 10
BOOT_TIMEOUT == 500000
BOOTSIZE     == 2048
SIGNATURE_BYTES == 2004993

\* Device constants of the ATmega2560 (avr/io.h, selected by MCU)
FLASHEND     == 262143
SPM_PAGESIZE == 256
WDRF         == 3

APP_END == (FLASHEND - (2 * BOOTSIZE)) + 1

\* Capacity of msgBuffer
MSG_BUFFER_SIZE == 285

\* States of the receive state machine
ST_START       == 0
ST_GET_SEQ_NUM == 1
ST_MSG_SIZE_1  == 2
ST_MSG_SIZE_2  == 3
ST_GET_TOKEN   == 4
ST_GET_DATA    == 5
ST_GET_CHECK   == 6
ST_PROCESS     == 7

\* ------------------------------------------------------------------------
\* Integer widths and bit operations of the C code
U8  == 256
U16 == 65536

\* A uint32_t v is held as [hi, lo]: v = hi * 2^24 + lo, hi its top byte
LOW24 == 16777216

U32(hi, lo) == [hi |-> hi % U8, lo |-> lo % LOW24]

\* v + k on uint32_t, for k < 2^24
Add32(v, k) == U32(v.hi + ((v.lo + k) \div LOW24), v.lo + k)

\* v < n on uint32_t, for n < 2^24
Less32(v, n) == v.hi = 0 /\ v.lo < n

Zero32 == U32(0, 0)

Byte == 0 .. 255

RECURSIVE XorN(_, _, _)
XorN(a, b, n) ==
    IF n = 0 THEN 0
    ELSE ((a + b) % 2) + 2 * XorN(a \div 2, b \div 2, n - 1)

\* a ^ b on uint8_t
Xor(a, b) == XorN(a, b, 8)

RECURSIVE AndN(_, _, _)
AndN(a, b, n) ==
    IF n = 0 THEN 0
    ELSE ((a % 2) * (b % 2)) + 2 * AndN(a \div 2, b \div 2, n - 1)

\* a & b on uint8_t
And(a, b) == AndN(a, b, 8)

\* bit n of a
Bit(a, n) == (a \div (2 ^ n)) % 2

Hi8(w) == (w \div 256) % 256
Lo8(w) == w % 256

\* ------------------------------------------------------------------------
VARIABLES
    pc,            \* where main is: "start", "wait", "recv", "process",
                   \* "answer", "leave", "app", "spin", "hang", "undefined"
    resetSource,   \* MCUSR as captured at startup
    uart,          \* TRUE once the USART has been initialised
    bootTimer,
    msgParseState, checksum, i, length,     \* locals of recieveData
    seqNum, msgBuffer, msgLength, ispProgram, address, eraseAddress,
    prior,         \* the byte every flash cell held before this session
    flashErased,   \* pages erased in this session
    flashData,     \* cells programmed since their page's last erase
    wire,          \* bytes the host has sent and the receiver has not read
    sent,          \* frames the host has sent
    tx,            \* the last answer frame transmitted
    flashOps,      \* SPM operations of the request being processed
    ub,            \* kinds of undefined behaviour that have occurred
    req,           \* the host's last frame, whether it was delivered to the
                   \* interpreter, whether an answer followed it (history)
    rxFrame,       \* bytes read since the last start marker (history)
    before         \* the last two requests dispatched (history)

vars == << pc, resetSource, uart, bootTimer, msgParseState, checksum, i,
           length, seqNum, msgBuffer, msgLength, ispProgram, address,
           eraseAddress, prior, flashErased, flashData, wire, sent, tx,
           flashOps, ub, req, rxFrame, before >>

BufIndex == 0 .. (MSG_BUFFER_SIZE - 1)

\* ------------------------------------------------------------------------
\* Program memory.  A flash image fl is [erased, data]: a cell holds
\* data[a] if programmed since the last erase of its page, 0xFF if its page
\* was erased in this session, and the prior content otherwise.

\* The device decodes FLASHEND+1 byte addresses (RAMPZ:Z); higher bits alias.
Phys(a) == a.lo % (FLASHEND + 1)

\* The page of byte address a, and the physical address of its first cell
PageOf(a) == Phys(a) \div SPM_PAGESIZE

PageBase(a) == PageOf(a) * SPM_PAGESIZE

\* The cell at physical address x
Cell(fl, pr, x) ==
    IF x \in DOMAIN fl.data THEN fl.data[x]
    ELSE IF (x \div SPM_PAGESIZE) \in fl.erased THEN 255
    ELSE pr

FlashByte(fl, pr, a) == Cell(fl, pr, Phys(a))

\* pgm_read_word_far(a): little-endian word at byte address a
FlashWord(fl, pr, a) == FlashByte(fl, pr, a) + 256 * FlashByte(fl, pr, Add32(a, 1))

\* a page erase that leaves the flash as it was
NoErase(fl, a) == fl

\* boot_page_erase(a); boot_spm_busy_wait()
ErasePage(fl, a) ==
    [erased |-> fl.erased \cup {PageOf(a)},
     data   |-> [x \in {y \in DOMAIN fl.data : y \div SPM_PAGESIZE # PageOf(a)} |-> fl.data[x]]]

\* boot_page_write(a) of the temporary page buffer buf (byte offset -> byte):
\* programming can only clear bits of a cell
WritePage(fl, pr, a, buf) ==
    LET cells == {PageBase(a) + o : o \in DOMAIN buf}
    IN  [erased |-> fl.erased,
         data   |-> [x \in DOMAIN fl.data \cup cells |->
                        IF x \in cells
                        THEN And(Cell(fl, pr, x), buf[x - PageBase(a)])
                        ELSE fl.data[x]]]

\* ------------------------------------------------------------------------
\* recieveData.  A receiver r is [st, checksum, i, length, seqNum, buf, oob,
\* frame]: the locals of recieveData, *seqNum, the buffer, whether a data byte
\* was stored outside the buffer, and the bytes read since the start marker.

\* case ST_GET_TOKEN: the token test
TokenOk(c) == c = TOKEN

\* a receiver without the checksum test: any byte passes
ChecksumAny(c, sum) == TRUE

\* case ST_GET_CHECK: the checksum test
ChecksumOk(c, sum) == c = sum

\* a receiver that increments before it stores: buffer[++i] = c
StoreNext(buf, k, c) == IF k + 1 \in BufIndex THEN [buf EXCEPT ![k + 1] = c] ELSE buf

\* case ST_GET_DATA: buffer[i++] = c (an index past the buffer hits other memory)
StoreData(buf, k, c) == IF k \in BufIndex THEN [buf EXCEPT ![k] = c] ELSE buf

\* case ST_GET_DATA: the end-of-data test, after i++
DataDone(k, len) == k = len

\* a receiver that does not capture the sequence number
KeepSeq(old, c) == old

\* case ST_GET_SEQ_NUM: *seqNum = c
CaptureSeq(old, c) == c

\* One iteration of the do/while: the switch on msgParseState for byte c
RecvStep(r, c) ==
    LET f == [r EXCEPT !.frame = Append(r.frame, c)]
    IN
    CASE r.st = ST_START ->
            IF c = MESSAGE_START
            THEN [r EXCEPT !.st = ST_GET_SEQ_NUM, !.checksum = Xor(MESSAGE_START, 0),
                           !.frame = << c >>]
            ELSE r
      [] r.st = ST_GET_SEQ_NUM ->
            [f EXCEPT !.seqNum = CaptureSeq(r.seqNum, c), !.st = ST_MSG_SIZE_1,
                      !.checksum = Xor(r.checksum, c)]
      [] r.st = ST_MSG_SIZE_1 ->
            [f EXCEPT !.length = (c * 256) % U16, !.st = ST_MSG_SIZE_2,
                      !.checksum = Xor(r.checksum, c)]
      [] r.st = ST_MSG_SIZE_2 ->
            \* length |= c: the low byte of length is 0 here
            [f EXCEPT !.length = r.length + c, !.st = ST_GET_TOKEN,
                      !.checksum = Xor(r.checksum, c)]
      [] r.st = ST_GET_TOKEN ->
            IF TokenOk(c)
            THEN [f EXCEPT !.st = ST_GET_DATA, !.checksum = Xor(r.checksum, c), !.i = 0]
            ELSE [f EXCEPT !.st = ST_START]
      [] r.st = ST_GET_DATA ->
            [f EXCEPT !.buf = StoreData(r.buf, r.i, c),
                      !.oob = r.oob \/ (r.i \notin BufIndex),
                      !.i = (r.i + 1) % U16,
                      !.checksum = Xor(r.checksum, c),
                      !.st = IF DataDone((r.i + 1) % U16, r.length)
                             THEN ST_GET_CHECK ELSE ST_GET_DATA]
      [] r.st = ST_GET_CHECK ->
            IF ChecksumOk(c, r.checksum)
            THEN [f EXCEPT !.st = ST_PROCESS]
            ELSE [f EXCEPT !.st = ST_START]
      [] OTHER -> r

\* The passes of the do/while loop for bytes[lo .. hi], in order; the loop
\* has ended once ST_PROCESS is reached.  run is [r, used]: the receiver and
\* the number of bytes read.  (The range is split in halves only to bound the
\* depth of evaluation.)
RECURSIVE RecvRange(_, _, _, _)
RecvRange(run, bytes, lo, hi) ==
    IF lo > hi \/ run.r.st = ST_PROCESS THEN run
    ELSE IF lo = hi
         THEN [r |-> RecvStep(run.r, bytes[lo]), used |-> run.used + 1]
         ELSE LET mid == (lo + hi) \div 2
                  half == RecvRange(run, bytes, lo, mid)
              IN  RecvRange(half, bytes, mid + 1, hi)

\* The do/while loop over the bytes available, until ST_PROCESS is reached or
\* the input is used up.  rest: the bytes not read.
RecvRun(r, bytes) ==
    LET run == RecvRange([r |-> r, used |-> 0], bytes, 1, Len(bytes))
    IN  [r |-> run.r, rest |-> SubSeq(bytes, run.used + 1, Len(bytes))]

\* ------------------------------------------------------------------------
\* The command interpreter: the if/else chain of main.  A session m is
\* [buf, msgLength, address, eraseAddress, ispProgram, fl, prior, ops, ub,
\* hang]; each branch maps the session at ST_PROCESS to the session at
\* "Now send answer message back".

\* Hardware configuration bytes read by boot_lock_fuse_bits_get
LOCK_BITS          == 63
LOW_FUSE_BITS      == 255
HIGH_FUSE_BITS     == 220
EXTENDED_FUSE_BITS == 253

\* Number of passes of "do { ...; msgSize -= 2; } while (msgSize)" on a
\* uint16_t msgSize; an odd msgSize never reaches 0
LoopWords(msgSize) == IF msgSize = 0 THEN U16 \div 2 ELSE msgSize \div 2

LoopEnds(msgSize) == msgSize % 2 = 0

\* msgBuffer[k], or the stray byte g when k is outside the buffer
Load(buf, k, g) == IF k \in BufIndex THEN buf[k] ELSE g

Answer(m, len, status) ==
    [m EXCEPT !.msgLength = len, !.buf = [m.buf EXCEPT ![1] = status]]

\* a sign-on branch that declares one byte too few
SignOnShort(m) ==
    [m EXCEPT !.msgLength = 10,
              !.buf = [k \in BufIndex |->
                         IF k \in 1 .. 10
                         THEN << STATUS_CMD_OK, 8, 65, 86, 82, 73, 83, 80, 95, 50 >>[k]
                         ELSE m.buf[k]]]

\* CMD_SIGN_ON: status, length of the name, "AVRISP_2"
SignOn(m) ==
    [m EXCEPT !.msgLength = 11,
              !.buf = [k \in BufIndex |->
                         IF k \in 1 .. 10
                         THEN << STATUS_CMD_OK, 8, 65, 86, 82, 73, 83, 80, 95, 50 >>[k]
                         ELSE m.buf[k]]]

getParameter(cmd) ==
    IF cmd = PARAM_BUILD_NUMBER_LOW THEN CONFIG_PARAM_BUILD_NUMBER_LOW
    ELSE IF cmd = PARAM_BUILD_NUMBER_HIGH THEN CONFIG_PARAM_BUILD_NUMBER_HIGH
    ELSE IF cmd = PARAM_HW_VER THEN CONFIG_PARAM_HW_VER
    ELSE IF cmd = PARAM_SW_MAJOR THEN CONFIG_PARAM_SW_MAJOR
    ELSE IF cmd = PARAM_SW_MINOR THEN CONFIG_PARAM_SW_MINOR
    ELSE 0

GetParameterCmd(m) ==
    [m EXCEPT !.msgLength = 3,
              !.buf = [m.buf EXCEPT ![1] = STATUS_CMD_OK,
                                    ![2] = getParameter(m.buf[1])]]

\* a branch that ends the loop on CMD_ENTER_PROGMODE_ISP as well
LeaveOnEnter(m) ==
    LET a == Answer(m, 2, STATUS_CMD_OK)
    IN  IF m.buf[0] \in {CMD_LEAVE_PROGMODE_ISP, CMD_ENTER_PROGMODE_ISP}
        THEN [a EXCEPT !.ispProgram = 1] ELSE a

\* CMD_LEAVE_PROGMODE_ISP, CMD_SET_PARAMETER, CMD_ENTER_PROGMODE_ISP
ProgModeCmd(m) ==
    LET a == Answer(m, 2, STATUS_CMD_OK)
    IN  IF m.buf[0] = CMD_LEAVE_PROGMODE_ISP THEN [a EXCEPT !.ispProgram = 1] ELSE a

\* RAMPZ build: address = b1 << 24; address |= (b2 << 16 | b3 << 8 | b4) << 1
WordToByteAddress(b1, b2, b3, b4) ==
    LET low   == ((b2 * 65536) + (b3 * 256) + b4) * 2
        bit24 == low \div LOW24
        high  == IF bit24 = 1 /\ b1 % 2 = 0 THEN b1 + 1 ELSE b1
    IN  U32(high, low)

LoadAddress(m) ==
    [Answer(m, 2, STATUS_CMD_OK) EXCEPT
        !.address = WordToByteAddress(m.buf[1], m.buf[2], m.buf[3], m.buf[4])]

\* programDevice with the boundary test off by one: <= for <
EraseAllowedUpTo(ea) == ea.hi = 0 /\ ea.lo <= APP_END

\* programDevice: "if (*eraseAddress < APP_END)"
EraseAllowed(ea) == Less32(ea, APP_END)

\* programDevice without the advance of the erase cursor
StayErase(ea) == ea

\* programDevice: "*eraseAddress += SPM_PAGESIZE"
NextErase(ea) == Add32(ea, SPM_PAGESIZE)

\* programDevice: "*programAddress += 2" over n passes of the loop
Advance(a, n) == Add32(a, 2 * n)

\* a page write at the address the loop has advanced the cursor to
CommitAtExit(entry, exit) == exit

\* programDevice: "boot_page_write(tempAddress)"
CommitAddress(entry, exit) == entry

\* programDevice(&address, &eraseAddress, size, msgBuffer + 10), the stray byte
\* g standing for what lies past the buffer
programDevice(m, size, g) ==
    LET tempAddress == m.address
        erase == EraseAllowed(m.eraseAddress)
        fl1   == IF erase THEN ErasePage(m.fl, m.eraseAddress) ELSE m.fl
        n     == LoopWords(size)
        data(j) == Load(m.buf, 10 + j, g)
        word(k) == (data(2 * k) + ((data((2 * k) + 1) * 256) % U16)) % U16
        \* the temporary page buffer latches the first word filled at an offset
        filled  == IF n < SPM_PAGESIZE \div 2 THEN n ELSE SPM_PAGESIZE \div 2
        first   == Phys(m.address) % SPM_PAGESIZE
        pagebuf == [o \in {(first + j) % SPM_PAGESIZE : j \in 0 .. ((2 * filled) - 1)} |->
                       data(((o + SPM_PAGESIZE) - first) % SPM_PAGESIZE)]
        fills   == [k \in 1 .. n |->
                       [op |-> "fill", addr |-> Advance(m.address, k - 1), word |-> word(k - 1)]]
    IN  [m EXCEPT
            !.eraseAddress = IF erase THEN NextErase(m.eraseAddress) ELSE m.eraseAddress,
            !.address = Advance(m.address, n),
            \* a loop that never ends reaches neither the page write nor the
            \* re-enabling of the RWW section
            !.fl  = IF LoopEnds(size)
                    THEN WritePage(fl1, m.prior,
                                   CommitAddress(tempAddress, Advance(m.address, n)), pagebuf)
                    ELSE fl1,
            !.ops = (IF erase THEN << [op |-> "erase", addr |-> m.eraseAddress, word |-> 0] >>
                     ELSE << >>)
                    \o fills
                    \o (IF LoopEnds(size)
                        THEN << [op |-> "write",
                                 addr |-> CommitAddress(tempAddress, Advance(m.address, n)),
                                 word |-> 0],
                                [op |-> "rww", addr |-> Zero32, word |-> 0] >>
                        ELSE << >>),
            !.ub  = IF 10 + (2 * n) > MSG_BUFFER_SIZE \/ ~LoopEnds(size)
                    THEN m.ub \cup {"program_load"} ELSE m.ub,
            !.hang = ~LoopEnds(size)]

ProgramFlash(m, g) ==
    LET size == (((m.buf[1] * 256) % U16) + m.buf[2]) % U16
    IN  Answer(programDevice(m, size, g), 2, STATUS_CMD_OK)

\* readDevice(&address, size, msgBuffer + 1)
readDevice(m, size) ==
    LET n == LoopWords(size)
    IN  [m EXCEPT
            !.buf = [k \in BufIndex |->
                        IF k = 1 THEN STATUS_CMD_OK
                        ELSE IF k >= 2 /\ k <= 1 + (2 * n)
                             THEN FlashByte(m.fl, m.prior, Add32(m.address, k - 2))
                             ELSE m.buf[k]],
            !.address = Advance(m.address, n),
            !.ub  = IF 2 + (2 * n) > MSG_BUFFER_SIZE \/ ~LoopEnds(size)
                    THEN m.ub \cup {"read_store"} ELSE m.ub,
            !.hang = ~LoopEnds(size)]

ReadFlash(m) ==
    LET size == (((m.buf[1] * 256) % U16) + m.buf[2]) % U16
    IN  [readDevice(m, size) EXCEPT !.msgLength = (size + 3) % U16]

SignatureByte(index) ==
    IF index = 0 THEN (SIGNATURE_BYTES \div 65536) % 256
    ELSE IF index = 1 THEN (SIGNATURE_BYTES \div 256) % 256
    ELSE SIGNATURE_BYTES % 256

ReadSignature(m) ==
    [m EXCEPT !.msgLength = 4,
              !.buf = [m.buf EXCEPT ![1] = STATUS_CMD_OK,
                                    ![2] = SignatureByte(m.buf[4]),
                                    ![3] = STATUS_CMD_OK]]

ReadLock(m) ==
    [m EXCEPT !.msgLength = 4,
              !.buf = [m.buf EXCEPT ![1] = STATUS_CMD_OK, ![2] = LOCK_BITS,
                                    ![3] = STATUS_CMD_OK]]

ReadFuse(m) ==
    LET fuseBits == IF m.buf[2] = 80
                    THEN (IF m.buf[3] = 8 THEN EXTENDED_FUSE_BITS ELSE LOW_FUSE_BITS)
                    ELSE HIGH_FUSE_BITS
    IN  [m EXCEPT !.msgLength = 4,
                  !.buf = [m.buf EXCEPT ![1] = STATUS_CMD_OK, ![2] = fuseBits,
                                        ![3] = STATUS_CMD_OK]]

SpiMulti(m) ==
    LET answerByte ==
            IF m.buf[4] = 48 THEN SignatureByte(m.buf[6])
            ELSE IF And(m.buf[4], 80) # 0
                 THEN (IF m.buf[4] = 80 THEN LOW_FUSE_BITS
                       ELSE IF m.buf[4] = 88 THEN HIGH_FUSE_BITS
                       ELSE 0)
                 ELSE 0
    IN  [m EXCEPT !.msgLength = 7,
                  !.buf = [m.buf EXCEPT ![1] = STATUS_CMD_OK, ![2] = 0,
                                        ![3] = m.buf[4], ![4] = 0,
                                        ![5] = answerByte, ![6] = STATUS_CMD_OK]]

\* a final else that also ends the loop
FailAndLeave(m) == [Answer(m, 2, STATUS_CMD_FAILED) EXCEPT !.ispProgram = 1]

\* a final else that resets the erase cursor whatever the opcode is
FailAndReset(m) == [Answer(m, 2, STATUS_CMD_FAILED) EXCEPT !.eraseAddress = Zero32]

\* the final else without the reset of the erase cursor
FailOnly(m) == Answer(m, 2, STATUS_CMD_FAILED)

\* the final else: CMD_CHIP_ERASE_ISP and every opcode not listed
OtherCmd(m) ==
    LET a == Answer(m, 2, STATUS_CMD_FAILED)
    IN  IF m.buf[0] = CMD_CHIP_ERASE_ISP THEN [a EXCEPT !.eraseAddress = Zero32] ELSE a

Command(m, g) ==
    LET op == m.buf[0]
    IN  IF op = CMD_SIGN_ON THEN SignOn(m)
        ELSE IF op = CMD_GET_PARAMETER THEN GetParameterCmd(m)
        ELSE IF op \in {CMD_LEAVE_PROGMODE_ISP, CMD_SET_PARAMETER, CMD_ENTER_PROGMODE_ISP}
             THEN ProgModeCmd(m)
        ELSE IF op = CMD_LOAD_ADDRESS THEN LoadAddress(m)
        ELSE IF op = CMD_PROGRAM_FLASH_ISP THEN ProgramFlash(m, g)
        ELSE IF op = CMD_READ_FLASH_ISP THEN ReadFlash(m)
        ELSE IF op = CMD_READ_SIGNATURE_ISP THEN ReadSignature(m)
        ELSE IF op = CMD_READ_LOCK_ISP THEN ReadLock(m)
        ELSE IF op = CMD_READ_FUSE_ISP THEN ReadFuse(m)
        ELSE IF op = CMD_SPI_MULTI THEN SpiMulti(m)
        ELSE OtherCmd(m)

\* ------------------------------------------------------------------------
\* The answer transmitter: the bytes passed to transmitChar, in order

RECURSIVE XorSeq(_, _, _)
\* checksum ^= c over s[lo .. hi] (split in halves only to bound the depth of
\* evaluation: ^ is associative)
XorSeq(s, lo, hi) ==
    IF lo > hi THEN 0
    ELSE IF lo = hi THEN s[lo]
    ELSE Xor(XorSeq(s, lo, (lo + hi) \div 2), XorSeq(s, ((lo + hi) \div 2) + 1, hi))

\* a transmitter whose checksum starts at 0 instead of MESSAGE_START
ChecksumWithoutStart(s) == XorSeq(s, 2, Len(s))

\* "checksum = MESSAGE_START ^ 0; ... transmitChar(checksum)"
FrameChecksum(s) == XorSeq(s, 1, Len(s))

\* the frame for sequence number seq and the len bytes of body
Encode(seq, len, body) ==
    LET head == << MESSAGE_START, seq, Hi8(len), Lo8(len), TOKEN >> \o body
    IN  Append(head, FrameChecksum(head))

\* "p = msgBuffer; while (msgLength) { c = *p++; ... }"
AnswerBody(buf, len, g) == [k \in 1 .. len |-> Load(buf, k - 1, g)]

\* an appStart that jumps whatever the first word is
AlwaysValid(fl, pr) == TRUE

\* appStart: the jump to address 0 is taken unless the first word is erased
AppValid(fl, pr) == FlashWord(fl, pr, Zero32) # 65535

\* ------------------------------------------------------------------------
\* The environment: what the host sends, and what memory outside the
\* program's objects may hold.

\* Number of frames the host sends in a session (Spec)
MaxRequests == 2

\* Number of frames the host sends in a session (SpecBytes)
MaxFrames == 2

\* Number of frames the host sends in a session (SpecPages)
MaxScript == 5

\* Number of polls of the boot wait taken one at a time (SpecBoot)
MaxPolls == 2

\* Number of frames the host sends in a session (SpecAhead)
MaxAhead == 3

\* Number of frames the host sends in a session (SpecLive)
MaxLive == 2

\* Number of frames the host sends in a session (SpecAddress)
MaxLoads == 1

\* Number of frames the host sends in a session (SpecResident)
MaxResident == 3

\* Number of frames the host sends in a session (SpecResync)
MaxResync == 2

\* Values of a byte the program never wrote (uninitialised msgBuffer, memory
\* past its end)
StrayBytes == {0, 255}

\* Flash contents before the session: blank, or an application
PriorBytes == {255, 12}

\* MCUSR at startup: external reset, or watchdog reset
ResetSources == {2, 2 ^ WDRF}

\* n data bytes of a page image
PageData(n) == [k \in 1 .. n |-> (k * 7) % 251]

ProgramBody(size, n) ==
    << CMD_PROGRAM_FLASH_ISP, Hi8(size), Lo8(size), 193, 10, 64, 76, 32, 0, 0 >> \o PageData(n)

ReadBody(size) == << CMD_READ_FLASH_ISP, Hi8(size), Lo8(size), 32 >>

LoadBody(b1, b2, b3, b4) == << CMD_LOAD_ADDRESS, b1, b2, b3, b4 >>

\* The exclusive-or of the bytes of s, bit by bit: bit b is the parity of the
\* number of bytes with bit b set
ParityXor(s) ==
    LET odd(b) == Cardinality({k \in 1 .. Len(s) : Bit(s[k], b) = 1}) % 2
    IN  odd(0) + (2 * odd(1)) + (4 * odd(2)) + (8 * odd(3)) + (16 * odd(4))
        + (32 * odd(5)) + (64 * odd(6)) + (128 * odd(7))

\* The wire frame as the host builds it for (seq, body)
HostEncode(seq, body) ==
    LET head == << MESSAGE_START, seq, Hi8(Len(body)), Lo8(Len(body)), TOKEN >> \o body
    IN  Append(head, ParityXor(head))

\* The frame the host puts on the line: a well-formed frame for (seq, body),
\* one with its token or its checksum byte changed (the token to the next
\* value or to the start marker), or the frame this firmware's own
\* transmitter makes for (seq, body)
HostFrame(kind, seq, body) ==
    LET f == HostEncode(seq, body)
    IN  CASE kind = "badtoken" -> [f EXCEPT ![5] = (TOKEN + 1) % U8]
          [] kind = "tokenstart" -> [f EXCEPT ![5] = MESSAGE_START]
          [] kind = "badsum"   -> [f EXCEPT ![Len(f)] = (f[Len(f)] + 1) % U8]
          [] kind = "encoded"  -> Encode(seq, Len(body), body)
          [] OTHER             -> f

\* A request with the host's next sequence number (seq 0), or with a given one
Valid(body) == [kind |-> "valid", seq |-> 0, body |-> body]

Bad(kind, body) == [kind |-> kind, seq |-> 0, body |-> body]

Encoded(seq, body) == [kind |-> "encoded", seq |-> seq, body |-> body]

\* The requests of a programming session
SessionRequests ==
    { Valid(LoadBody(0, 0, 0, 0)),
      Valid(LoadBody(0, 0, 0, 64)),
      Valid(LoadBody(128, 0, 0, 128)),
      Valid(ProgramBody(2, 2)),
      Valid(ProgramBody(SPM_PAGESIZE, SPM_PAGESIZE)),
      Valid(ProgramBody(3, 4)),
      Valid(ReadBody(2)),
      Valid(ReadBody(SPM_PAGESIZE)),
      Valid(ReadBody(0)),
      Valid(ReadBody(5)),
      Valid(ReadBody(284)),
      Valid(<< CMD_CHIP_ERASE_ISP, 0, 0 >>),
      Valid(<< CMD_SIGN_ON >>),
      Valid(<< CMD_GET_PARAMETER, PARAM_SW_MINOR >>),
      Valid(<< CMD_SET_PARAMETER, 152, 0 >>),
      Valid(<< CMD_ENTER_PROGMODE_ISP >>),
      Valid(<< CMD_LEAVE_PROGMODE_ISP >>),
      Valid(<< CMD_READ_SIGNATURE_ISP, 0, 0, 0, 1 >>),
      Valid(<< CMD_READ_LOCK_ISP >>),
      Valid(<< CMD_READ_FUSE_ISP, 80, 8, 0 >>),
      Valid(<< CMD_SPI_MULTI, 4, 4, 0, 48, 0, 0, 0 >>),
      Valid(<< 127 >>),
      Bad("badtoken", << CMD_SIGN_ON >>),
      Bad("badsum", LoadBody(0, 0, 0, 64)),
      Encoded(MESSAGE_START, << CMD_GET_PARAMETER >>),
      Encoded(TOKEN, << CMD_SIGN_ON, STATUS_CMD_OK, 8, 65, 86, 82, 73, 83, 80, 95, 50 >>),
      Encoded(255, ProgramBody(SPM_PAGESIZE, MSG_BUFFER_SIZE - 10)) }

\* Frames that exercise the receiver: well-formed ones (the last two declare
\* length 0 and length 286), and ones with a wrong token or checksum
WireRequests ==
    { Valid(<< CMD_SIGN_ON >>),
      Valid(LoadBody(0, 0, 0, 64)),
      Valid(<< CMD_LEAVE_PROGMODE_ISP >>),
      Valid(<< >>),
      Valid(ProgramBody(276, 276)),
      Bad("badtoken", << CMD_READ_SIGNATURE_ISP, 0, 0, 0, 1 >>),
      Bad("badsum", LoadBody(0, 0, 0, 64)) }

\* Requests that walk the erase cursor
EraseRequests ==
    { Valid(LoadBody(0, 0, 0, 0)),
      Valid(ProgramBody(2, 2)),
      Valid(ReadBody(2)),
      Valid(<< CMD_CHIP_ERASE_ISP, 0, 0 >>) }

\* ------------------------------------------------------------------------
\* History of the requests dispatched: before holds the opcode, the cursors
\* and the buffer at ST_PROCESS of the request last dispatched, and in last,
\* last2 and last3 the same of the three requests dispatched before it, each
\* with the addresses it erased

\* no opcode (one past every byte): nothing dispatched yet
NoOp == U8

NoRequest ==
    [op |-> NoOp, address |-> Zero32, eraseAddress |-> Zero32, buf |-> << >>,
     erased |-> {}]

Init ==
    /\ pc = "start"
    /\ resetSource \in ResetSources
    /\ uart = FALSE
    /\ bootTimer = 0
    /\ msgParseState = ST_START
    /\ checksum = 0
    /\ i = 0
    /\ length = 0
    /\ seqNum = 0
    /\ msgBuffer \in {[k \in BufIndex |-> g] : g \in StrayBytes}
    /\ msgLength = 0
    /\ ispProgram = 0
    /\ address = Zero32
    /\ eraseAddress = Zero32
    /\ prior \in PriorBytes
    /\ flashErased = {}
    /\ flashData = [x \in {} |-> 0]
    /\ wire = << >>
    /\ sent = 0
    /\ tx = << >>
    /\ flashOps = << >>
    /\ ub = {}
    /\ req = [kind |-> "none", seq |-> 0, body |-> << >>, atStart |-> FALSE,
              delivered |-> FALSE, answered |-> FALSE,
              prev |-> [kind |-> "none", body |-> << >>]]
    /\ rxFrame = << >>
    /\ before = [op |-> NoOp, address |-> Zero32, eraseAddress |-> Zero32,
                 buf |-> << >>, last |-> NoRequest, last2 |-> NoRequest,
                 last3 |-> NoRequest]

Flash == [erased |-> flashErased, data |-> flashData]

\* The addresses at which the operations ops erase a page
Erased(ops) == {ops[k].addr : k \in {j \in 1 .. Len(ops) : ops[j].op = "erase"}}

\* a startup that does not look at the reset cause
SkipResetCheck ==
    /\ pc = "start"
    /\ pc' = "wait"
    /\ uart' = TRUE
    /\ UNCHANGED << resetSource, bootTimer, msgParseState, checksum, i, length,
                    seqNum, msgBuffer, msgLength, ispProgram, address,
                    eraseAddress, prior, flashErased, flashData, wire, sent, tx,
                    flashOps, ub, req, rxFrame, before >>

\* main up to the boot wait: "if (resetSource & (1 << WDRF)) appStart();",
\* then the USART initialisation
CheckReset ==
    /\ pc = "start"
    /\ IF Bit(resetSource, WDRF) = 1 /\ AppValid(Flash, prior)
       THEN pc' = "app" /\ uart' = uart
       ELSE pc' = "wait" /\ uart' = TRUE
    /\ UNCHANGED << resetSource, bootTimer, msgParseState, checksum, i, length,
                    seqNum, msgBuffer, msgLength, ispProgram, address,
                    eraseAddress, prior, flashErased, flashData, wire, sent, tx,
                    flashOps, ub, req, rxFrame, before >>

\* The boot wait ends because a byte is available
WaitData ==
    /\ pc = "wait"
    /\ wire # << >>
    /\ bootTimer # BOOT_TIMEOUT
    /\ pc' = "recv"
    /\ UNCHANGED << resetSource, uart, bootTimer, msgParseState, checksum, i,
                    length, seqNum, msgBuffer, msgLength, ispProgram, address,
                    eraseAddress, prior, flashErased, flashData, wire, sent, tx,
                    flashOps, ub, req, rxFrame, before >>

\* The boot wait goes on: a run of k polls that find no byte and leave
\* ++bootTimer short of BOOT_TIMEOUT, k being 1 or all that remain but one
Poll ==
    /\ pc = "wait"
    /\ wire = << >>
    /\ \E k \in {n \in {1, (BOOT_TIMEOUT - 1) - bootTimer} :
                    n = 1 => bootTimer < MaxPolls} :
         /\ k >= 1
         /\ bootTimer + k < BOOT_TIMEOUT
         /\ bootTimer' = bootTimer + k
    /\ UNCHANGED << pc, resetSource, uart, msgParseState, checksum, i,
                    length, seqNum, msgBuffer, msgLength, ispProgram, address,
                    eraseAddress, prior, flashErased, flashData, wire, sent, tx,
                    flashOps, ub, req, rxFrame, before >>

\* a boot wait that enters the loop when the counter runs out
TimeoutIntoLoop ==
    /\ pc = "wait"
    /\ wire = << >>
    /\ bootTimer' = BOOT_TIMEOUT
    /\ pc' = "recv"
    /\ UNCHANGED << resetSource, uart, msgParseState, checksum, i,
                    length, seqNum, msgBuffer, msgLength, ispProgram, address,
                    eraseAddress, prior, flashErased, flashData, wire, sent, tx,
                    flashOps, ub, req, rxFrame, before >>

\* The boot wait ends because ++bootTimer reached BOOT_TIMEOUT
WaitTimeout ==
    /\ pc = "wait"
    /\ wire = << >>
    /\ bootTimer' = BOOT_TIMEOUT
    /\ pc' = "leave"
    /\ UNCHANGED << resetSource, uart, msgParseState, checksum, i,
                    length, seqNum, msgBuffer, msgLength, ispProgram, address,
                    eraseAddress, prior, flashErased, flashData, wire, sent, tx,
                    flashOps, ub, req, rxFrame, before >>

\* The host sends request q, n being its next sequence number
Send(q, n) ==
    /\ pc \in {"wait", "recv"}
    /\ wire = << >>
    /\ LET seq == IF q.seq = 0 THEN n % U8 ELSE q.seq
       IN  /\ wire' = HostFrame(q.kind, seq, q.body)
           /\ req' = [kind |-> q.kind, seq |-> seq, body |-> q.body,
                      atStart |-> msgParseState = ST_START, delivered |-> FALSE,
                      answered |-> FALSE,
                      prev |-> [kind |-> req.kind, body |-> req.body]]
    /\ UNCHANGED << pc, resetSource, uart, bootTimer, msgParseState, checksum, i,
                    length, seqNum, msgBuffer, msgLength, ispProgram, address,
                    eraseAddress, prior, flashErased, flashData, tx,
                    flashOps, ub, rxFrame, before >>

HostSend ==
    /\ sent < MaxRequests
    /\ \E q \in SessionRequests : Send(q, sent + 1)
    /\ sent' = sent + 1

Receiver ==
    [st |-> msgParseState, checksum |-> checksum, i |-> i, length |-> length,
     seqNum |-> seqNum, buf |-> msgBuffer, oob |-> FALSE, frame |-> rxFrame]

\* The receiver is r after reading input, rest being left on the line
Received(r, rest) ==
    /\ msgParseState' = r.st
    /\ checksum' = r.checksum
    /\ i' = r.i
    /\ length' = r.length
    /\ seqNum' = r.seqNum
    /\ msgBuffer' = r.buf
    /\ rxFrame' = r.frame
    /\ ub' = IF r.oob THEN ub \cup {"receive_store"} ELSE ub
    /\ wire' = rest
    /\ pc' = IF r.st = ST_PROCESS THEN "process" ELSE "recv"
    /\ req' = IF r.st = ST_PROCESS THEN [req EXCEPT !.delivered = TRUE] ELSE req
    /\ UNCHANGED << resetSource, uart, bootTimer, msgLength, ispProgram, address,
                    eraseAddress, prior, flashErased, flashData, sent, tx,
                    flashOps, before >>

\* recieveData, run on the bytes the host has sent
RecieveData ==
    /\ pc = "recv"
    /\ wire # << >>
    /\ LET run == RecvRun(Receiver, wire)
       IN  Received(run.r, run.rest)

\* recieveData, one pass of its loop: c = recieveChar(); switch ...
RecieveChar ==
    /\ pc = "recv"
    /\ wire # << >>
    /\ Received(RecvStep(Receiver, Head(wire)), Tail(wire))

\* The command interpreter, from ST_PROCESS to "Now send answer message back"
Dispatch ==
    /\ pc = "process"
    /\ \E g \in StrayBytes :
         LET m == Command([buf |-> msgBuffer, msgLength |-> msgLength,
                           address |-> address, eraseAddress |-> eraseAddress,
                           ispProgram |-> ispProgram, fl |-> Flash, prior |-> prior,
                           ops |-> << >>, ub |-> ub, hang |-> FALSE], g)
         IN  /\ msgBuffer' = m.buf
             /\ msgLength' = m.msgLength
             /\ address' = m.address
             /\ eraseAddress' = m.eraseAddress
             /\ ispProgram' = m.ispProgram
             /\ flashErased' = m.fl.erased
             /\ flashData' = m.fl.data
             /\ flashOps' = m.ops
             /\ ub' = m.ub
             /\ pc' = IF m.hang THEN "hang" ELSE "answer"
    /\ before' = [op |-> msgBuffer[0], address |-> address,
                  eraseAddress |-> eraseAddress, buf |-> msgBuffer,
                  last |-> [op |-> before.op, address |-> before.address,
                            eraseAddress |-> before.eraseAddress,
                            buf |-> before.buf, erased |-> Erased(flashOps)],
                  last2 |-> before.last, last3 |-> before.last2]
    /\ UNCHANGED << resetSource, uart, bootTimer, msgParseState, checksum, i,
                    length, seqNum, prior, wire, sent, tx, req, rxFrame >>

\* a transmitter that sends its answer a second time
AnswerTwice ==
    /\ pc = "answer"
    /\ \E g \in StrayBytes :
         tx' = Encode(seqNum, msgLength, AnswerBody(msgBuffer, msgLength, g))
    /\ req' = [req EXCEPT !.answered = TRUE]
    /\ ub' = IF msgLength > MSG_BUFFER_SIZE THEN ub \cup {"answer_load"} ELSE ub
    /\ msgLength' = msgLength
    /\ pc' = IF ~req.answered THEN "answer" ELSE IF ispProgram = 0 THEN "recv" ELSE "leave"
    /\ msgParseState' = ST_START
    /\ checksum' = 0
    /\ i' = 0
    /\ length' = 0
    /\ UNCHANGED << resetSource, uart, bootTimer, seqNum, msgBuffer, ispProgram,
                    address, eraseAddress, prior, flashErased, flashData, wire,
                    sent, flashOps, rxFrame, before >>

\* The answer transmitter, then the loop test and the next call of recieveData
SendAnswer ==
    /\ pc = "answer"
    /\ \E g \in StrayBytes :
         tx' = Encode(seqNum, msgLength, AnswerBody(msgBuffer, msgLength, g))
    /\ req' = [req EXCEPT !.answered = TRUE]
    /\ ub' = IF msgLength > MSG_BUFFER_SIZE THEN ub \cup {"answer_load"} ELSE ub
    /\ msgLength' = 0
    /\ pc' = IF ispProgram = 0 THEN "recv" ELSE "leave"
    /\ msgParseState' = ST_START
    /\ checksum' = 0
    /\ i' = 0
    /\ length' = 0
    /\ UNCHANGED << resetSource, uart, bootTimer, seqNum, msgBuffer, ispProgram,
                    address, eraseAddress, prior, flashErased, flashData, wire,
                    sent, flashOps, rxFrame, before >>

\* "Now leave bootloader": appStart(), then for(;;)
LeaveBootloader ==
    /\ pc = "leave"
    /\ pc' = IF AppValid(Flash, prior) THEN "app" ELSE "spin"
    /\ UNCHANGED << resetSource, uart, bootTimer, msgParseState, checksum, i,
                    length, seqNum, msgBuffer, msgLength, ispProgram, address,
                    eraseAddress, prior, flashErased, flashData, wire, sent, tx,
                    flashOps, ub, req, rxFrame, before >>

\* After undefined behaviour control may be lost
Undefined ==
    /\ ub # {}
    /\ pc \in {"recv", "process", "answer"}
    /\ pc' = "undefined"
    /\ UNCHANGED << resetSource, uart, bootTimer, msgParseState, checksum, i,
                    length, seqNum, msgBuffer, msgLength, ispProgram, address,
                    eraseAddress, prior, flashErased, flashData, wire, sent, tx,
                    flashOps, ub, req, rxFrame, before >>

\* The host sends a frame that exercises the receiver
HostSendFrame ==
    /\ sent < MaxFrames
    /\ \E q \in WireRequests : Send(q, sent + 1)
    /\ sent' = sent + 1

\* The host walks the erase cursor: it loads address 0 before it programs or
\* reads, and asks for a chip erase near the ends of the cursor's range
HostWalk ==
    /\ \E q \in EraseRequests :
         /\ q.body[1] \in {CMD_PROGRAM_FLASH_ISP, CMD_READ_FLASH_ISP} => address = Zero32
         /\ q.body[1] = CMD_LOAD_ADDRESS => address # Zero32
         /\ q.body[1] = CMD_CHIP_ERASE_ISP =>
                /\ address = Zero32
                /\ \/ eraseAddress.lo <= SPM_PAGESIZE
                   \/ eraseAddress.lo >= APP_END
         /\ Send(q, 1)
    /\ sent' = sent

Main == CheckReset \/ WaitData \/ WaitTimeout \/ Dispatch \/ SendAnswer
        \/ LeaveBootloader

\* A programming session, request by request
Next == HostSend \/ RecieveData \/ Main \/ Undefined

Spec == Init /\ [][Next]_vars

\* The receiver, byte by byte
NextBytes == HostSendFrame \/ RecieveChar \/ Main \/ Undefined

InitBytes == Init /\ prior = 12

SpecBytes == InitBytes /\ [][NextBytes]_vars

\* A long session that takes the erase cursor to the end of the application
NextWalk == HostWalk \/ RecieveData \/ Main

InitErase ==
    /\ Init
    /\ resetSource = 2
    /\ prior = 12
    /\ msgBuffer = [k \in BufIndex |-> 0]

SpecErase == InitErase /\ [][NextWalk]_vars

\* A session of whole-page writes and reads at the first two pages
PageRequests ==
    { Valid(LoadBody(0, 0, 0, 0)),
      Valid(LoadBody(0, 0, 0, SPM_PAGESIZE \div 2)),
      Valid(ProgramBody(SPM_PAGESIZE, SPM_PAGESIZE)),
      Valid(ReadBody(SPM_PAGESIZE)) }

HostPages ==
    /\ sent < MaxScript
    /\ \E q \in PageRequests : Send(q, sent + 1)
    /\ sent' = sent + 1

NextPages == HostPages \/ RecieveData \/ Main

InitPages ==
    /\ Init
    /\ resetSource = 2
    /\ msgBuffer = [k \in BufIndex |-> 0]

SpecPages == InitPages /\ [][NextPages]_vars

\* The boot wait poll by poll, then a short session
NextBoot == HostSendFrame \/ Poll \/ RecieveData \/ Main

\* main outside the protocol loop: the processor keeps executing it
Boot == CheckReset \/ Poll \/ WaitData \/ WaitTimeout \/ LeaveBootloader

SpecBoot == Init /\ [][NextBoot]_vars /\ WF_vars(Boot)

\* A host that does not wait for the answer: it sends its next frame while
\* the firmware is still reading, interpreting or answering
AheadRequests ==
    { Valid(<< CMD_SIGN_ON >>),
      Valid(<< CMD_GET_PARAMETER, PARAM_SW_MAJOR >>),
      Bad("badsum", << CMD_SIGN_ON >>) }

HostAhead ==
    /\ sent < MaxAhead
    /\ pc \in {"wait", "recv", "process", "answer"}
    /\ \E q \in AheadRequests :
         wire' = wire \o HostFrame(q.kind, (sent + 1) % U8, q.body)
    /\ sent' = sent + 1
    /\ UNCHANGED << pc, resetSource, uart, bootTimer, msgParseState, checksum, i,
                    length, seqNum, msgBuffer, msgLength, ispProgram, address,
                    eraseAddress, prior, flashErased, flashData, tx,
                    flashOps, ub, req, rxFrame, before >>

NextAhead == HostAhead \/ RecieveChar \/ Main

SpecAhead == InitBytes /\ [][NextAhead]_vars

\* A session in which the firmware keeps running: a message delivered is
\* interpreted, an answer ready is sent
LiveRequests ==
    { Valid(<< CMD_SIGN_ON >>),
      Valid(ReadBody(2)),
      Valid(ReadBody(5)),
      Valid(ProgramBody(2, 2)),
      Valid(ProgramBody(3, 4)) }

HostLive ==
    /\ sent < MaxLive
    /\ \E q \in LiveRequests : Send(q, sent + 1)
    /\ sent' = sent + 1

NextLive == HostLive \/ RecieveChar \/ Main

SpecLive ==
    InitBytes /\ [][NextLive]_vars /\ WF_vars(RecieveChar) /\ WF_vars(Dispatch)
    /\ WF_vars(SendAnswer)

\* Load-address requests over the corners of the four address bytes
TopBytes == {0, 1, 128, 255}

LowBytes == {0, 128, 255}

HostLoad ==
    /\ sent < MaxLoads
    /\ \E b1 \in TopBytes, b2, b3, b4 \in LowBytes :
         Send(Valid(LoadBody(b1, b2, b3, b4)), sent + 1)
    /\ sent' = sent + 1

NextAddress == HostLoad \/ RecieveData \/ Main

SpecAddress == InitPages /\ [][NextAddress]_vars

\* A session at the application boundary: the cursor is loaded with the last
\* page of the application (word address 0x1F780) or with the first page at
\* the boundary (word address 0x1F800), and words or whole pages are programmed
ResidentRequests ==
    { Valid(LoadBody(0, 1, 247, 128)),
      Valid(LoadBody(0, 1, 248, 0)),
      Valid(ProgramBody(2, 2)),
      Valid(ProgramBody(SPM_PAGESIZE, SPM_PAGESIZE)) }

HostResident ==
    /\ sent < MaxResident
    /\ \E q \in ResidentRequests : Send(q, sent + 1)
    /\ sent' = sent + 1

NextResident == HostResident \/ RecieveData \/ Main

SpecResident == InitPages /\ [][NextResident]_vars

\* Frames the receiver rejects, with the start marker in their payload, in
\* their length (27 bytes) or in place of their token, and well-formed ones
ResyncRequests ==
    { Bad("badsum", << CMD_SIGN_ON >>),
      Bad("badsum", LoadBody(0, 0, 0, MESSAGE_START)),
      Bad("badtoken", << CMD_SIGN_ON >>),
      Bad("badtoken", LoadBody(0, 0, 0, MESSAGE_START)),
      Bad("badtoken", ProgramBody(2, MESSAGE_START - 10)),
      Bad("tokenstart", << CMD_SIGN_ON >>),
      Valid(<< CMD_SIGN_ON >>),
      Valid(<< CMD_GET_PARAMETER, PARAM_SW_MINOR >>) }

HostResync ==
    /\ sent < MaxResync
    /\ \E q \in ResyncRequests : Send(q, sent + 1)
    /\ sent' = sent + 1

NextResync == HostResync \/ RecieveChar \/ Main

SpecResync == InitBytes /\ [][NextResync]_vars

\* ------------------------------------------------------------------------
\* Properties

\* C1: no page erase is issued at a byte address at or above APP_END, and no
\* page at or above APP_END is ever erased, however far a session of
\* load-address, program-flash, read-flash and chip-erase requests goes
C1_NoEraseAtOrAboveAppEnd ==
    /\ \A k \in 1 .. Len(flashOps) :
          flashOps[k].op = "erase" =>
              flashOps[k].addr.hi = 0 /\ flashOps[k].addr.lo < APP_END
    /\ \A p \in flashErased : p * SPM_PAGESIZE < APP_END

\* C1 witness: a program-flash request processed with the erase cursor at
\* APP_END: it fills and writes, and erases nothing
C1_Witness ==
    /\ pc = "answer"
    /\ before.buf[0] = CMD_PROGRAM_FLASH_ISP
    /\ before.eraseAddress = U32(0, APP_END)
    /\ eraseAddress = U32(0, APP_END)
    /\ flashOps[1].op = "fill"
    /\ Cardinality(flashErased) = APP_END \div SPM_PAGESIZE

\* C2: the receiver never stores a byte outside the message buffer: a frame
\* whose declared length does not fit the buffer is rejected or ignored
C2_NoStoreOutsideBuffer == "receive_store" \notin ub

\* The bytes of the wire frame f before its checksum byte
Covered(f) == SubSeq(f, 1, Len(f) - 1)

\* C3: a frame reaches the command interpreter only with the token literal in
\* its fifth byte and a checksum byte equal to the exclusive-or of the bytes
\* before it; a frame with another token, or another checksum byte, is never
\* delivered and never answered, and the receiver is back in ST_START when it
\* has read the offending byte
C3_RejectedFramesSilent ==
    /\ pc = "process" =>
          /\ Len(rxFrame) >= 6
          /\ rxFrame[5] = TOKEN
          /\ rxFrame[Len(rxFrame)] = ParityXor(Covered(rxFrame))
    /\ req.kind \in {"badtoken", "badsum"} /\ req.atStart =>
          /\ ~req.delivered
          /\ ~req.answered
          /\ pc # "process"
    /\ req.kind = "badtoken" /\ req.atStart /\ Len(wire) = Len(req.body) + 1 =>
          msgParseState = ST_START
    /\ req.kind = "badsum" /\ req.atStart /\ wire = << >> =>
          msgParseState = ST_START

C3_Witness ==
    /\ req.kind = "badsum"
    /\ req.atStart
    /\ req.prev.kind = "valid"
    /\ wire = << >>
    /\ Len(rxFrame) = Len(req.body) + 6
    /\ rxFrame[Len(rxFrame)] # ParityXor(Covered(rxFrame))
    /\ msgParseState = ST_START
    /\ pc = "recv"
    /\ tx # << >>

\* C4: an answer carries, in its second byte, the sequence number of the frame
\* it answers: the one captured when that frame was accepted, which is the one
\* the host gave it
C4_SequenceEcho ==
    req.answered =>
        /\ tx[2] = rxFrame[2]
        /\ req.atStart /\ req.kind \in {"valid", "encoded"} => tx[2] = req.seq

C4_Witness ==
    /\ req.answered
    /\ req.kind = "valid"
    /\ req.atStart
    /\ req.prev.kind \in {"badtoken", "badsum"}
    /\ req.seq = 2
    /\ tx[2] = 2

\* The payload length an answer declares in its third and fourth bytes
Declared(f) == (f[3] * U8) + f[4]

\* C5: every answer ends in a checksum byte equal to the exclusive-or of all
\* the bytes before it: start marker, sequence number, the two length bytes,
\* the token and every payload byte
C5_AnswerChecksum ==
    tx # << >> =>
        /\ tx[1] = MESSAGE_START
        /\ tx[5] = TOKEN
        /\ Len(tx) = Declared(tx) + 6
        /\ tx[Len(tx)] = ParityXor(Covered(tx))

C5_Witness ==
    /\ req.answered
    /\ before.op = CMD_READ_FLASH_ISP
    /\ Declared(tx) = SPM_PAGESIZE + 3
    /\ tx[Len(tx)] = ParityXor(Covered(tx))
    /\ tx[Len(tx)] # 0

\* C6: the frame the transmitter makes for a sequence number and a payload
\* that fits the buffer, read by the receiver from ST_START, brings it to
\* ST_PROCESS with that sequence number and that payload in the buffer
C6_RoundTrip ==
    /\ req.kind = "encoded"
    /\ req.atStart
    /\ Len(req.body) <= MSG_BUFFER_SIZE
    /\ wire = << >>
    /\ ~req.answered
    /\ pc \in {"recv", "process"}
    => /\ pc = "process"
       /\ msgParseState = ST_PROCESS
       /\ seqNum = req.seq
       /\ "receive_store" \notin ub
       /\ \A k \in 1 .. Len(req.body) : msgBuffer[k - 1] = req.body[k]

C6_Witness ==
    /\ req.kind = "encoded"
    /\ req.atStart
    /\ req.prev.kind = "valid"
    /\ Len(req.body) = MSG_BUFFER_SIZE
    /\ pc = "process"
    /\ seqNum = 255
    /\ \A k \in 1 .. Len(req.body) : msgBuffer[k - 1] = req.body[k]

\* The byte count a program-flash or read-flash request carries
Count(buf) == (buf[1] * U8) + buf[2]

\* C7: after a read-flash or a program-flash request carrying byte count n the
\* program cursor is its value before the request plus n
C7_CursorAdvancesByCount ==
    pc = "answer" /\ before.op \in {CMD_PROGRAM_FLASH_ISP, CMD_READ_FLASH_ISP} =>
        address = Add32(before.address, Count(before.buf))

\* C8: a read-flash request with byte count 0 right after a load-address
\* request leaves the program cursor at the loaded address and answers with
\* the status alone: three body bytes declared, nothing stored past them
C8_ZeroReadKeepsCursor ==
    /\ pc = "answer"
    /\ before.op = CMD_READ_FLASH_ISP
    /\ Count(before.buf) = 0
    /\ before.last.op = CMD_LOAD_ADDRESS
    => /\ address = before.address
       /\ msgLength = 3
       /\ msgBuffer[1] = STATUS_CMD_OK
       /\ \A k \in BufIndex : k >= 2 => msgBuffer[k] = before.buf[k]

SamePage(a, b) == a.hi = b.hi /\ PageOf(a) = PageOf(b)

\* A program-flash request has been carried out whose target lies in the page
\* the program-flash request dispatched just before it targeted
ConsecutivePrograms ==
    /\ pc = "answer"
    /\ before.op = CMD_PROGRAM_FLASH_ISP
    /\ before.last.op = CMD_PROGRAM_FLASH_ISP
    /\ SamePage(before.address, before.last.address)

\* C9 (as stated): the second of two consecutive program-flash requests that
\* target the same page issues no page erase
C9_SecondProgramErasesNothing == ConsecutivePrograms => Erased(flashOps) = {}

\* C9 (amended): of two consecutive program-flash requests that target the
\* same page, each issues at most one page erase, at the erase cursor it finds
\* and whenever that cursor is below APP_END; the second never erases the page
\* the first erased but the page after it
C9_ErasePerRequest ==
    ConsecutivePrograms =>
        /\ Cardinality({k \in 1 .. Len(flashOps) : flashOps[k].op = "erase"}) <= 1
        /\ Erased(flashOps) \cap before.last.erased = {}
        /\ Erased(flashOps) =
              IF Less32(before.eraseAddress, APP_END) THEN {before.eraseAddress} ELSE {}
        /\ before.last.erased # {} =>
              before.eraseAddress \in {Add32(a, SPM_PAGESIZE) : a \in before.last.erased}

C9_Witness ==
    /\ ConsecutivePrograms
    /\ before.last.erased = {Zero32}
    /\ Erased(flashOps) = {U32(0, SPM_PAGESIZE)}
    /\ PageOf(before.address) = 0

\* C10: a chip-erase request zeroes the erase cursor, touches no flash and is
\* answered with STATUS_CMD_FAILED; the program-flash request at address 0
\* after it erases the page at 0, writes it and is answered with STATUS_CMD_OK
C10_ChipEraseThenProgram ==
    /\ pc = "answer" /\ before.op = CMD_CHIP_ERASE_ISP =>
          /\ eraseAddress = Zero32
          /\ address = before.address
          /\ flashOps = << >>
          /\ msgLength = 2
          /\ msgBuffer[1] = STATUS_CMD_FAILED
    /\ req.answered /\ before.op = CMD_CHIP_ERASE_ISP =>
          /\ Declared(tx) = 2
          /\ tx[6] = CMD_CHIP_ERASE_ISP
          /\ tx[7] = STATUS_CMD_FAILED
    /\ /\ pc = "answer"
       /\ before.op = CMD_PROGRAM_FLASH_ISP
       /\ before.last.op = CMD_CHIP_ERASE_ISP
       /\ before.address = Zero32
       /\ Count(before.buf) = 2
       => /\ flashOps[1] = [op |-> "erase", addr |-> Zero32, word |-> 0]
          /\ \E k \in 2 .. Len(flashOps) :
                flashOps[k].op = "write" /\ flashOps[k].addr = Zero32
          /\ 0 \in flashErased
          /\ FlashByte(Flash, prior, Zero32) = before.buf[10]
          /\ FlashByte(Flash, prior, U32(0, 1)) = before.buf[11]
          /\ eraseAddress = U32(0, SPM_PAGESIZE)
          /\ msgLength = 2
          /\ msgBuffer[1] = STATUS_CMD_OK
    /\ /\ req.answered
       /\ before.op = CMD_PROGRAM_FLASH_ISP
       /\ before.last.op = CMD_CHIP_ERASE_ISP
       /\ before.address = Zero32
       => tx[7] = STATUS_CMD_OK

C10_Witness ==
    /\ req.answered
    /\ before.op = CMD_PROGRAM_FLASH_ISP
    /\ before.last.op = CMD_CHIP_ERASE_ISP
    /\ before.last.eraseAddress = U32(0, APP_END)
    /\ before.address = Zero32
    /\ flashOps[1].op = "erase"
    /\ flashOps[1].addr = Zero32
    /\ tx[7] = STATUS_CMD_OK

\* A read-flash of one page has been carried out at the page-aligned
\* application address at which the program-flash request two requests
\* earlier wrote one page, a load-address request preceding each of the two
ReadBack ==
    /\ pc = "answer"
    /\ before.op = CMD_READ_FLASH_ISP
    /\ Count(before.buf) = SPM_PAGESIZE
    /\ before.last.op = CMD_LOAD_ADDRESS
    /\ before.last2.op = CMD_PROGRAM_FLASH_ISP
    /\ Count(before.last2.buf) = SPM_PAGESIZE
    /\ before.last3.op = CMD_LOAD_ADDRESS
    /\ before.address = before.last2.address
    /\ before.address.lo % SPM_PAGESIZE = 0
    /\ Less32(before.address, APP_END)

\* byte k of the page the program-flash request carried
Written(k) == before.last2.buf[10 + k]

\* byte k of the flash data in the read-flash answer
Returned(k) == msgBuffer[2 + k]

PageBytes == 0 .. (SPM_PAGESIZE - 1)

WatchdogReset == Bit(resetSource, WDRF) = 1

\* The serial interface was never set up, no byte was read from it and none
\* was sent to it
SerialUntouched ==
    /\ ~uart
    /\ tx = << >>
    /\ rxFrame = << >>
    /\ ~req.delivered
    /\ ~req.answered
    /\ before.op = NoOp

BootWaitInv ==
    /\ bootTimer <= BOOT_TIMEOUT
    /\ pc = "wait" => bootTimer < BOOT_TIMEOUT /\ tx = << >> /\ before.op = NoOp
    /\ bootTimer = BOOT_TIMEOUT =>
          /\ pc \in {"leave", "app", "spin"}
          /\ wire = << >>
          /\ tx = << >>
          /\ rxFrame = << >>
          /\ ~req.delivered
          /\ before.op = NoOp
    /\ pc \in {"recv", "process", "answer", "hang"} =>
          bootTimer < BOOT_TIMEOUT /\ sent >= 1

BootWaitStep ==
    /\ pc = "wait" => pc' \in {"wait", "recv", "leave"} /\ bootTimer' >= bootTimer
    /\ pc = "wait" /\ pc' = "recv" => wire # << >> /\ bootTimer' = bootTimer
    /\ pc = "wait" /\ pc' = "leave" => wire = << >> /\ bootTimer' = BOOT_TIMEOUT
    /\ pc = "wait" /\ wire # << >> => pc' = "recv"
    /\ pc = "leave" => pc' \in {"app", "spin"}

\* C13: the boot wait ends within BOOT_TIMEOUT polls; when no byte has come
\* as the counter reaches BOOT_TIMEOUT the loop is never entered, nothing is
\* sent and the application jump is attempted; when a byte has come before,
\* the loop is entered
C13_BootWait ==
    /\ []BootWaitInv
    /\ [][BootWaitStep]_vars
    /\ (pc = "wait") ~> (pc # "wait")
    /\ (bootTimer = BOOT_TIMEOUT) ~> (pc \in {"app", "spin"})
    /\ (pc = "wait" /\ wire # << >>) ~> (pc = "recv" /\ bootTimer < BOOT_TIMEOUT)

C13_Witness ==
    /\ ~WatchdogReset
    /\ bootTimer = BOOT_TIMEOUT - 1
    /\ pc = "recv"
    /\ req.answered

\* The word at flash address 0, low byte first
FirstWord == FlashByte(Flash, prior, Zero32) + (U8 * FlashByte(Flash, prior, U32(0, 1)))

\* C14: control is at the application only with a word other than 0xFFFF at
\* flash address 0; with 0xFFFF there, an attempted application jump (after
\* a watchdog reset, the boot timeout or leave-programming-mode) is not made
C14_JumpOnlyToProgrammedFlash ==
    /\ pc = "app" => FirstWord # 65535
    /\ pc = "spin" => FirstWord = 65535
    /\ FirstWord = 65535 => pc # "app"

C14_Witness ==
    /\ pc = "app"
    /\ prior = 255
    /\ before.op = CMD_LEAVE_PROGMODE_ISP
    /\ before.last.op = CMD_PROGRAM_FLASH_ISP
    /\ FirstWord # 65535

\* main is past its protocol loop (or never entered it)
Exited == pc \in {"leave", "app", "spin"}

\* tx is a whole answer frame to opcode op with the given status and no data
StatusAnswer(op, status) ==
    /\ Len(tx) = 8
    /\ tx[1] = MESSAGE_START
    /\ tx[2] = rxFrame[2]
    /\ Declared(tx) = 2
    /\ tx[5] = TOKEN
    /\ tx[6] = op
    /\ tx[7] = status
    /\ tx[8] = ParityXor(Covered(tx))

LeaveInv ==
    /\ ispProgram = 1 => before.op = CMD_LEAVE_PROGMODE_ISP
    /\ Exited /\ before.op # NoOp =>
          /\ ispProgram = 1
          /\ req.answered
          /\ StatusAnswer(CMD_LEAVE_PROGMODE_ISP, STATUS_CMD_OK)
    /\ req.answered /\ before.op # CMD_LEAVE_PROGMODE_ISP /\ pc # "undefined" =>
          pc = "recv" /\ ispProgram = 0

LeaveStep ==
    /\ Exited => tx' = tx /\ wire' = wire /\ rxFrame' = rxFrame /\ pc' \in {"app", "spin"}
    /\ ispProgram' # ispProgram =>
          pc = "process" /\ msgBuffer[0] = CMD_LEAVE_PROGMODE_ISP /\ pc' = "answer"
    /\ pc = "answer" /\ ispProgram = 1 =>
          /\ pc' \in {"leave", "undefined"}
          /\ pc' = "leave" => req'.answered

\* C15: a leave-programming-mode request is answered with a whole frame of
\* OK status, then the loop ends: no byte is read or sent after that answer
\* and the application jump is attempted; no other opcode ends the loop
C15_LeaveEndsLoop == []LeaveInv /\ [][LeaveStep]_vars

C15_Witness ==
    /\ pc = "app"
    /\ prior = 12
    /\ before.op = CMD_LEAVE_PROGMODE_ISP
    /\ before.last.op = CMD_SIGN_ON
    /\ req.answered
    /\ StatusAnswer(CMD_LEAVE_PROGMODE_ISP, STATUS_CMD_OK)

\* The opcodes the if / else if chain of main tests for
Dispatched ==
    { CMD_SIGN_ON, CMD_GET_PARAMETER, CMD_LEAVE_PROGMODE_ISP, CMD_SET_PARAMETER,
      CMD_ENTER_PROGMODE_ISP, CMD_LOAD_ADDRESS, CMD_PROGRAM_FLASH_ISP,
      CMD_READ_FLASH_ISP, CMD_READ_SIGNATURE_ISP, CMD_READ_LOCK_ISP,
      CMD_READ_FUSE_ISP, CMD_SPI_MULTI, CMD_CHIP_ERASE_ISP }

\* C16: a request with an opcode the dispatcher does not know is answered
\* with declared length 2 and STATUS_CMD_FAILED, changes nothing else, and
\* the loop goes on: the next valid request is received and answered
C16_UnknownOpcodeFails ==
    /\ pc = "answer" /\ before.op \notin Dispatched =>
          /\ msgLength = 2
          /\ msgBuffer[1] = STATUS_CMD_FAILED
          /\ ispProgram = 0
          /\ address = before.address
          /\ eraseAddress = before.eraseAddress
          /\ flashOps = << >>
    /\ req.answered /\ before.op \notin Dispatched /\ pc # "undefined" =>
          /\ StatusAnswer(before.op, STATUS_CMD_FAILED)
          /\ pc = "recv"
    /\ /\ req.prev.kind = "valid"
       /\ req.prev.body[1] \notin Dispatched
       /\ req.kind \in {"valid", "encoded"}
       /\ wire = << >>
       /\ pc # "undefined"
       => /\ req.delivered
          /\ pc = "process" => msgBuffer[0] = req.body[1]
          /\ pc # "process" =>
                before.op = req.body[1] /\ before.last.op = req.prev.body[1]
          /\ pc \in {"process", "answer", "hang"} \/ req.answered

C16_Witness ==
    /\ req.prev.kind = "valid"
    /\ req.prev.body[1] \notin Dispatched
    /\ before.last.op \notin Dispatched
    /\ req.kind = "valid"
    /\ before.op = CMD_GET_PARAMETER
    /\ req.answered
    /\ tx[2] = 2
    /\ tx[7] = STATUS_CMD_OK

\* The order of main: startup, boot wait, then the loop of receive,
\* interpret and answer, then the exit
PcOrder ==
    pc' # pc =>
        \/ pc = "start" /\ pc' \in {"app", "wait"}
        \/ pc = "wait" /\ pc' \in {"recv", "leave"}
        \/ pc = "recv" /\ pc' \in {"process", "undefined"}
        \/ pc = "process" /\ pc' \in {"answer", "hang", "undefined"}
        \/ pc = "answer" /\ pc' \in {"recv", "leave", "undefined"}
        \/ pc = "leave" /\ pc' \in {"app", "spin"}

\* One answer for the message delivered, and nothing else sent or read
AlternationStep ==
    /\ PcOrder
    /\ pc' = "process" /\ pc # "process" =>
          /\ Len(wire') < Len(wire)
          /\ msgParseState' = ST_PROCESS
          /\ tx' = tx
    /\ pc = "answer" /\ pc' \in {"recv", "leave"} =>
          /\ Len(tx') = msgLength + 6
          /\ tx'[2] = rxFrame[2]
          /\ tx'[6] = before.op
          /\ tx'[Len(tx')] = ParityXor(Covered(tx'))
    /\ tx' # tx => pc = "answer" /\ pc' \in {"recv", "leave"}
    /\ pc = "answer" /\ pc' = "answer" => msgLength' = msgLength /\ tx' = tx
    /\ pc = "process" /\ pc' = "process" => msgBuffer' = msgBuffer
    /\ pc \in {"process", "answer"} =>
          /\ rxFrame' = rxFrame
          /\ Len(wire') >= Len(wire)
          /\ SubSeq(wire', 1, Len(wire)) = wire
    /\ Len(wire') < Len(wire) => pc = "recv" /\ wire' = Tail(wire)

\* C17: one answer frame is sent for each message delivered, in the order of
\* delivery; no byte is sent otherwise, and no input byte is read between a
\* delivery and the checksum byte of its answer
C17_StrictAlternation == [][AlternationStep]_vars

C17_Witness ==
    /\ pc = "recv"
    /\ sent = 2
    /\ tx # << >>
    /\ tx[2] = 1
    /\ rxFrame[2] = 1
    /\ Len(wire) = 8
    /\ wire[2] = 2

\* C18: every message that passes its checksum is in the end followed by a
\* whole answer frame, whatever its opcode and its byte count
C18_EveryMessageAnswered == (pc = "process") ~> req.answered

\* The body of the answer frame tx: its bytes after the token, before the
\* checksum byte
Body(f) == SubSeq(f, 6, Len(f) - 1)

\* A sign-on request has been answered
SignOnAnswered == req.answered /\ before.op = CMD_SIGN_ON

\* C19 (as stated): the answer to sign-on has a body of 11 bytes whose first
\* byte is STATUS_CMD_OK
C19_SignOnStatusFirst ==
    SignOnAnswered => Declared(tx) = 11 /\ Body(tx)[1] = STATUS_CMD_OK

\* C19 (amended): the answer to sign-on has a body of 11 bytes: the opcode
\* CMD_SIGN_ON, then STATUS_CMD_OK, then the length 8 and the name "AVRISP_2"
C19_SignOnAnswer ==
    SignOnAnswered =>
        /\ Declared(tx) = 11
        /\ Len(Body(tx)) = 11
        /\ Body(tx) = << CMD_SIGN_ON, STATUS_CMD_OK, 8, 65, 86, 82, 73, 83, 80, 95, 50 >>

C19_Witness ==
    /\ SignOnAnswered
    /\ req.body = << CMD_SIGN_ON >>
    /\ req.prev.kind = "valid"
    /\ Body(tx)[1] = CMD_SIGN_ON
    /\ Body(tx)[2] = STATUS_CMD_OK
    /\ Body(tx)[11] = 50

\* The low three bytes of the word address a load-address request carries
LowWord(buf) == (buf[2] * U16) + (buf[3] * U8) + buf[4]

\* Bit 23 of that word address, which doubling carries into the top byte
Carry(buf) == LowWord(buf) \div (LOW24 \div 2)

\* Twice the big-endian 32-bit word address of the request, modulo 2^32
TwiceWord(buf) ==
    [hi |-> ((2 * buf[1]) + Carry(buf)) % U8, lo |-> (2 * LowWord(buf)) % LOW24]

\* A load-address request has been carried out
AddressLoaded == pc = "answer" /\ before.op = CMD_LOAD_ADDRESS

\* C20: after a load-address request the program cursor is twice the
\* big-endian word address of the request, modulo 2^32, whatever the four
\* address bytes are
C20_CursorIsTwiceWordAddress == AddressLoaded => address = TwiceWord(before.buf)

\* Opcodes whose branch assigns neither cursor
CursorNeutral ==
    {CMD_SIGN_ON, CMD_GET_PARAMETER, CMD_SET_PARAMETER, CMD_ENTER_PROGMODE_ISP,
     CMD_READ_SIGNATURE_ISP, CMD_READ_LOCK_ISP, CMD_READ_FUSE_ISP}

\* Every step of the program keeps the frame of the two cursors
CursorFrameStep ==
    /\ (pc = "process" /\ msgBuffer[0] \in CursorNeutral \cup (Byte \ Dispatched))
           => (address' = address /\ eraseAddress' = eraseAddress)
    /\ address' # address
           => /\ pc = "process"
              /\ msgBuffer[0] \in {CMD_LOAD_ADDRESS, CMD_PROGRAM_FLASH_ISP,
                                   CMD_READ_FLASH_ISP}
    /\ eraseAddress' # eraseAddress
           => /\ pc = "process"
              /\ msgBuffer[0] \in {CMD_PROGRAM_FLASH_ISP, CMD_CHIP_ERASE_ISP}

\* C21: sign-on, get-parameter, set-parameter, enter-programming-mode,
\* read-signature, read-lock, read-fuse and unknown opcodes leave the program
\* cursor and the erase cursor as they were; only load-address, program-flash
\* and read-flash change the program cursor, and only program-flash and
\* chip-erase change the erase cursor
C21_CursorFrame == [][CursorFrameStep]_vars

\* an unknown opcode has been answered with both cursors away from zero
C21_Witness ==
    /\ pc = "answer"
    /\ before.op = 127
    /\ before.last.op = CMD_PROGRAM_FLASH_ISP
    /\ address = [hi |-> 0, lo |-> 2]
    /\ eraseAddress = [hi |-> 0, lo |-> SPM_PAGESIZE]
    /\ msgBuffer[1] = STATUS_CMD_FAILED

\* The interpreter has run programDevice for the request last dispatched
Programmed == pc \in {"answer", "hang"} /\ before.op = CMD_PROGRAM_FLASH_ISP

\* The byte count of the request last dispatched, and its passes of the loop
Words == LoopWords(Count(before.buf))

\* 1 when the request found the erase cursor below the boundary
Erases == IF Less32(before.eraseAddress, APP_END) THEN 1 ELSE 0

\* The positions of the operations of kind o in the SPM log
Ops(o) == {k \in 1 .. Len(flashOps) : flashOps[k].op = o}

\* C22: in a program-flash request the page erase at the erase cursor, when
\* the cursor is below the boundary, comes before any word is staged; the
\* words of the payload are staged in payload order, little-endian, at
\* consecutive addresses from the program cursor; then one page write is
\* issued at the address the cursor had on entry, then the RWW section is
\* re-enabled, and all this has happened when the answer is still to be sent
C22_ProgramOrder ==
    Programmed =>
        /\ Ops("erase") = 1 .. Erases
        /\ Erases = 1 => flashOps[1].addr = before.eraseAddress
        /\ Ops("fill") = (Erases + 1) .. (Erases + Words)
        /\ \A k \in 1 .. Words :
              /\ flashOps[Erases + k].addr = Add32(before.address, 2 * (k - 1))
              /\ flashOps[Erases + k].word =
                    before.buf[10 + (2 * (k - 1))]
                        + (256 * before.buf[11 + (2 * (k - 1))])
        /\ pc = "answer" =>
              /\ Len(flashOps) = Erases + Words + 2
              /\ Ops("write") = {Erases + Words + 1}
              /\ flashOps[Erases + Words + 1].addr = before.address
              /\ Ops("rww") = {Erases + Words + 2}
              /\ ~req.answered
              /\ req.delivered
        /\ pc = "hang" => Ops("write") = {} /\ Ops("rww") = {}

\* a whole page has been programmed away from address 0
C22_Witness ==
    /\ Programmed
    /\ pc = "answer"
    /\ before.address = [hi |-> 0, lo |-> 128]
    /\ Words = SPM_PAGESIZE \div 2
    /\ Len(flashOps) = 131
    /\ flashOps[1].op = "erase"
    /\ flashOps[3].word = 21 + (256 * 28)
    /\ flashOps[130] = [op |-> "write", addr |-> [hi |-> 0, lo |-> 128], word |-> 0]
    /\ address = [hi |-> 0, lo |-> 384]

\* The operations of the SPM log that stage a word or write a page
Writes == Ops("fill") \cup Ops("write")

\* C23: no word is staged and no page write is issued at a byte address at or
\* above the application boundary, and no cell there is programmed
C23_NoWriteAtOrAboveAppEnd ==
    /\ \A k \in Writes : Phys(flashOps[k].addr) < APP_END
    /\ \A x \in DOMAIN flashData : x < APP_END

\* Page p has been erased in this session and nothing has been written to it
\* since
Blank(p) ==
    /\ p \in flashErased
    /\ \A x \in DOMAIN flashData : x \div SPM_PAGESIZE # p

\* A program-flash request that completes writes a page that is blank or that
\* the request itself erases
WriteAfterEraseStep ==
    (pc = "process" /\ msgBuffer[0] = CMD_PROGRAM_FLASH_ISP /\ pc' = "answer")
        => \/ Blank(PageOf(address))
           \/ /\ Less32(eraseAddress, APP_END)
              /\ PageOf(eraseAddress) = PageOf(address)

\* C24: every page that a program-flash request writes has been erased
\* earlier in the session, by that request or before it, and not written
\* since, whatever the order of the load-address and program-flash requests
C24_WriteAfterErase == [][WriteAfterEraseStep]_vars

\* The kinds of frame the receiver rejects
Rejected == {"badtoken", "tokenstart", "badsum"}

\* The receiver has read every byte the host has sent and waits for more
Idle == pc = "recv" /\ wire = << >>

\* C25: when a well-formed frame follows a frame that was rejected for its
\* token or its checksum, then once the receiver has read it in full the
\* message has been delivered to the interpreter and answered, whatever bytes
\* the rejected frame held
C25_Resynchronization ==
    (req.kind = "valid" /\ req.prev.kind \in Rejected /\ Idle)
        => (req.delivered /\ req.answered)

\* The interpreter has run readDevice for the request last dispatched
ReadDone == pc \in {"answer", "hang"} /\ before.op = CMD_READ_FLASH_ISP

\* C26: whatever byte count a read-flash request carries, readDevice stores
\* the status byte and the flash data only inside msgBuffer, and the length
\* declared for the answer, byte count + 3, is at most the size of the buffer
C26_ReadInsideBuffer ==
    /\ "read_store" \notin ub
    /\ ReadDone => msgLength <= MSG_BUFFER_SIZE
====
